---- MODULE Spec2Model ----
(***************************************************************************)
(* The messaging core of the platform backend: ChatService                 *)
(* (backend/core/services/chat/chat_service.py) over the relational store, *)
(* with the message cipher of backend/core/utils/encryption.py.            *)
(*                                                                         *)
(* Every call the service makes on the store (select / insert / update /   *)
(* delete ... .execute()) is one atomic step; a service method that makes  *)
(* several store calls is a sequence of steps of one request process, and  *)
(* the steps of different requests interleave freely (request-parallel     *)
(* scheduling, no application-level locking).                              *)
(***************************************************************************)
EXTENDS Integers, Sequences, FiniteSets, TLC

\* ------------------------------------------------------------------ bounds
Users == {1, 2, 3}          \* user ids, ordered like UUIDs are by <
Procs == {1, 2}             \* concurrently running requests
MaxCalls == 2               \* requests served in one run
MaxConvs == 2               \* conversation ids the store ever hands out
MaxMsgs == 2                \* message ids the store ever hands out
MaxIds == 1                 \* longest message_ids list given to mark-read
IVs == {0, 1}               \* initialisation vectors Fernet may draw
RawTexts == {<<1>>, <<0>>, <<0, 1>>}   \* request bodies: "a", " ", " a"
MaxPage == 3                \* largest page number a listing is asked for
MaxSize == 2                \* largest page size a listing is asked for
MaxLen == 2                 \* longest plaintext handed to the cipher directly
Queries == {<<1>>, <<2>>, <<1, 1>>}     \* search strings: "a", "A", "aa"

\* ------------------------------------------------------------------ cipher
Space == 0                  \* the whitespace character
NumChars == 3               \* size of the plaintext alphabet 0..NumChars-1
FernetVersion == 128        \* first byte of every Fernet token (0x80)
SecretKey == 1              \* the key derived from settings.SECRET_KEY

RECURSIVE LStrip(_)
LStrip(s) == IF s # <<>> /\ Head(s) = Space THEN LStrip(Tail(s)) ELSE s

RECURSIVE RStrip(_)
RStrip(s) ==
    IF s # <<>> /\ s[Len(s)] = Space THEN RStrip(SubSeq(s, 1, Len(s) - 1)) ELSE s

\* str.strip()
Strip(s) == RStrip(LStrip(s))

RECURSIVE SumSeq(_)
SumSeq(s) == IF s = <<>> THEN 0 ELSE Head(s) + SumSeq(Tail(s))

\* _get_fernet_key: deterministic, the same key in every process
FernetKey == SecretKey

\* the authentication tag Fernet appends (HMAC over version, iv, ciphertext)
Hmac(key, iv, ct) == (key + iv + SumSeq(ct) + Len(ct)) % (NumChars + 1)

\* Fernet.encrypt: version byte, iv, enciphered body, tag
FernetEncrypt(key, iv, s) ==
    LET ct == [i \in 1..Len(s) |-> (s[i] + key + iv) % NumChars]
    IN  <<FernetVersion, iv>> \o ct \o <<Hmac(key, iv, ct)>>

TokenBody(tok) == SubSeq(tok, 3, Len(tok) - 1)

\* what Fernet.decrypt accepts: right version, intact tag under this key
FernetValid(key, tok) ==
    /\ Len(tok) >= 3
    /\ tok[1] = FernetVersion
    /\ tok[Len(tok)] = Hmac(key, tok[2], TokenBody(tok))

\* a decryption that leaves the initialisation vector out
FernetDecrypt_NoIv(key, tok) ==
    LET ct == TokenBody(tok)
    IN  [i \in 1..Len(ct) |-> (ct[i] + 2 * NumChars - key) % NumChars]

FernetDecrypt(key, tok) ==
    LET ct == TokenBody(tok)
    IN  [i \in 1..Len(ct) |-> (ct[i] + 2 * NumChars - key - tok[2]) % NumChars]

\* the content stored as it came
encrypt_message_Plain(content, iv) == content

\* a check that turns down the empty string only
EncryptFails_EmptyOnly(content) == content = <<>>

\* encrypt_message: ValueError on empty / whitespace-only content
EncryptFails(content) == content = <<>> \/ Strip(content) = <<>>

encrypt_message(content, iv) == FernetEncrypt(FernetKey, iv, content)

\* decrypt_message: ValueError on empty input, Exception when Fernet refuses
DecryptFails(tok) == tok = <<>> \/ ~FernetValid(FernetKey, tok)

decrypt_message(tok) == FernetDecrypt(FernetKey, tok)

\* MessageCreate.validate_content (with min_length=1): rejects blank bodies,
\* otherwise the content handed to the service is the stripped body
ContentRejected(raw) == Len(raw) < 1 \/ Strip(raw) = <<>>

ValidatedContent(raw) == Strip(raw)

\* ------------------------------------------------------------------- state
VARIABLES
    conversations,  \* table conversations: rows [id, p1, p2, created_at, last_message_at]
    messages,       \* table messages: rows [id, conv, sender, content, is_read, created_at]
    nextConvId,     \* the next conversation id the store generates
    nextMsgId,      \* the next message id the store generates
    now,            \* the store's clock (column default now())
    served,         \* requests taken so far
    procs           \* the request each process is serving and where it stands

vars == <<conversations, messages, nextConvId, nextMsgId, now, served, procs>>

\* outcomes of a service call
Res(kind, why, id, n, content) ==
    [kind |-> kind, why |-> why, id |-> id, n |-> n, content |-> content]

NoRes == Res("none", "", 0, 0, <<>>)

Idle ==
    [pc |-> "idle", op |-> "none", user |-> 0, other |-> 0, conv |-> 0,
     text |-> <<>>, token |-> <<>>, ids |-> <<>>, idx |-> 0, count |-> 0,
     nstore |-> 0, res |-> NoRes,
     page |-> 0, size |-> 0, rows |-> <<>>, out |-> <<>>, total |-> 0,
     more |-> FALSE, last |-> <<>>]

\* a process takes a new request when it is not in the middle of one; the
\* outcome of its previous request stays readable until then
Free(self) == procs[self].pc \in {"idle", "done"} /\ served < MaxCalls

Done(rec, res) == [rec EXCEPT !.pc = "done", !.res = res]

\* The service keeps no state of its own: its state is the store's, which
\* outlives every request.  A run starts from an empty store, or from a store
\* earlier requests left behind: get_or_create_conversation(1, 2), then
\* possibly send_message(1, 1, "a").
StoreEmpty ==
    [convs |-> {}, msgs |-> {}, nextConv |-> 1, nextMsg |-> 1, now |-> 1]

StoreOneConv ==
    [convs |-> {[id |-> 1, p1 |-> 1, p2 |-> 2, created_at |-> 1,
                 last_message_at |-> 1]},
     msgs |-> {}, nextConv |-> 2, nextMsg |-> 1, now |-> 2]

StoreOneMsg ==
    [StoreOneConv EXCEPT
        !.msgs = {[id |-> 1, conv |-> 1, sender |-> 1,
                   content |-> encrypt_message(<<1>>, 0), is_read |-> FALSE,
                   created_at |-> 2]},
        !.nextMsg = 2, !.now = 3]

InitStores == {StoreEmpty, StoreOneConv, StoreOneMsg}

\* a token the cipher refuses: its tag no longer fits (a row written under
\* another key, or damaged in the store)
Corrupt(tok) == [tok EXCEPT ![Len(tok)] = (tok[Len(tok)] + 1) % (NumChars + 1)]

\* Stores for the listings.  A thread of three messages, the two oldest
\* inserted within one tick of the store's clock, the first already read:
StoreThread ==
    [StoreOneConv EXCEPT
        !.msgs = {[id |-> 1, conv |-> 1, sender |-> 1,
                   content |-> encrypt_message(<<1>>, 0), is_read |-> TRUE,
                   created_at |-> 2],
                  [id |-> 2, conv |-> 1, sender |-> 2,
                   content |-> encrypt_message(<<2>>, 1), is_read |-> FALSE,
                   created_at |-> 2],
                  [id |-> 3, conv |-> 1, sender |-> 1,
                   content |-> encrypt_message(<<1, 2>>, 0), is_read |-> FALSE,
                   created_at |-> 3]},
        !.nextMsg = 4, !.now = 4]

\* a thread of three messages, the newest of them undecryptable
StoreCorrupt ==
    [StoreOneConv EXCEPT
        !.msgs = {[id |-> 1, conv |-> 1, sender |-> 1,
                   content |-> encrypt_message(<<1>>, 0), is_read |-> FALSE,
                   created_at |-> 2],
                  [id |-> 2, conv |-> 1, sender |-> 2,
                   content |-> encrypt_message(<<2>>, 1), is_read |-> FALSE,
                   created_at |-> 3],
                  [id |-> 3, conv |-> 1, sender |-> 1,
                   content |-> Corrupt(encrypt_message(<<1, 2>>, 0)),
                   is_read |-> FALSE, created_at |-> 4]},
        !.nextMsg = 4, !.now = 5]

\* user 2 in three conversations (with 3, with a user 4 who makes no request
\* in this run, and with 1), the last two created within one tick
StoreInbox ==
    [convs |-> {[id |-> 1, p1 |-> 2, p2 |-> 3, created_at |-> 1, last_message_at |-> 1],
                [id |-> 2, p1 |-> 2, p2 |-> 4, created_at |-> 2, last_message_at |-> 2],
                [id |-> 3, p1 |-> 1, p2 |-> 2, created_at |-> 2, last_message_at |-> 2]},
     msgs |-> {[id |-> 1, conv |-> 3, sender |-> 1,
                content |-> encrypt_message(<<1>>, 0), is_read |-> FALSE,
                created_at |-> 3],
               [id |-> 2, conv |-> 1, sender |-> 3,
                content |-> encrypt_message(<<2>>, 1), is_read |-> FALSE,
                created_at |-> 4],
               [id |-> 3, conv |-> 1, sender |-> 2,
                content |-> encrypt_message(<<1>>, 1), is_read |-> FALSE,
                created_at |-> 5]},
     nextConv |-> 4, nextMsg |-> 4, now |-> 6]

\* user 1 in two conversations created within one tick of the store's clock,
\* holding the first seat in both; one unread message from user 2
StoreTied ==
    [convs |-> {[id |-> 1, p1 |-> 1, p2 |-> 2, created_at |-> 1, last_message_at |-> 1],
                [id |-> 2, p1 |-> 1, p2 |-> 3, created_at |-> 1, last_message_at |-> 1]},
     msgs |-> {[id |-> 1, conv |-> 1, sender |-> 2,
                content |-> encrypt_message(<<1>>, 0), is_read |-> FALSE,
                created_at |-> 2]},
     nextConv |-> 3, nextMsg |-> 2, now |-> 3]

ReadStores == InitStores \cup {StoreThread, StoreCorrupt, StoreInbox, StoreTied}

Init ==
    /\ \E st \in InitStores :
        /\ conversations = st.convs
        /\ messages = st.msgs
        /\ nextConvId = st.nextConv
        /\ nextMsgId = st.nextMsg
        /\ now = st.now
    /\ served = 0
    /\ procs = [p \in Procs |-> Idle]

InitRead ==
    /\ \E st \in ReadStores :
        /\ conversations = st.convs
        /\ messages = st.msgs
        /\ nextConvId = st.nextConv
        /\ nextMsgId = st.nextMsg
        /\ now = st.now
    /\ served = 0
    /\ procs = [p \in Procs |-> Idle]

\* ------------------------------------------------------------------- store
\* .eq("participant_1_id", p1).eq("participant_2_id", p2)
ConvsByPair(p1, p2) == {c \in conversations : c.p1 = p1 /\ c.p2 = p2}

\* .eq("id", id) on conversations
ConvsById(id) == {c \in conversations : c.id = id}

\* .eq("id", id) on messages
MsgsById(id) == {m \in messages : m.id = id}

\* schema: CHECK (participant_1_id < participant_2_id)
CheckOrdered(p1, p2) == p1 < p2

\* a store without the uniqueness constraint
UniquePair_Off(p1, p2) == TRUE

\* schema: UNIQUE (participant_1_id, participant_2_id)
UniquePair(p1, p2) == ConvsByPair(p1, p2) = {}

\* a store that does not check the reference
ForeignKeyOk_Off(conv) == TRUE

\* schema: messages.conversation_id REFERENCES conversations(id)
ForeignKeyOk(conv) == ConvsById(conv) # {}

\* the row an insert into conversations creates (id and timestamps by default)
NewConvRow(p1, p2) ==
    [id |-> nextConvId, p1 |-> p1, p2 |-> p2, created_at |-> now,
     last_message_at |-> now]

\* a messages table whose is_read column defaults to true
NewMsgRow_Read(conv, sender, content) ==
    [id |-> nextMsgId, conv |-> conv, sender |-> sender, content |-> content,
     is_read |-> TRUE, created_at |-> now]

\* the row an insert into messages creates (id, is_read, created_at by default)
NewMsgRow(conv, sender, content) ==
    [id |-> nextMsgId, conv |-> conv, sender |-> sender, content |-> content,
     is_read |-> FALSE, created_at |-> now]

\* a store that leaves the messages of a deleted conversation behind
CascadeDelete_None(id) == messages

\* ON DELETE CASCADE: the messages that survive deleting conversation id
CascadeDelete(id) == {m \in messages : m.conv # id}

\* the participant test left out
IsParticipant_Any(c, user) == TRUE

\* the participant test every method repeats on a fetched conversation row
IsParticipant(c, user) == ~(c.p1 # user /\ c.p2 # user)

\* ------------------------------------------------- get_or_create_conversation
\* the pair as the caller gave it, not ordered
OrderPair_AsGiven(user, participant) == <<user, participant>>

\* the pair ordered the wrong way round
OrderPair_Reversed(user, participant) ==
    IF user < participant THEN <<participant, user>> ELSE <<user, participant>>

\* "Order participants by UUID to maintain database constraint"
OrderPair(user, participant) ==
    IF user < participant THEN <<user, participant>> ELSE <<participant, user>>

\* the self-conversation test left out
IsSelf_Never(user, participant) == FALSE

\* the self-conversation test that opens the method
IsSelf(user, participant) == user = participant

\* a formatter that always names participant 1 as the other one
OtherParticipant_First(c, user) == c.p1

\* _format_conversation_response: which participant is "other" for the viewer
OtherParticipant(c, user) == IF c.p1 = user THEN c.p2 ELSE c.p1

\* the call, up to and including its first store call (the lookup)
GetOrCreateCall(self, user, participant) ==
    LET rec == [Idle EXCEPT !.op = "getOrCreate", !.user = user,
                            !.other = participant]
        pair == OrderPair(user, participant)
        hit == ConvsByPair(pair[1], pair[2])
    IN  /\ Free(self)
        /\ IF IsSelf(user, participant)
           THEN procs' = [procs EXCEPT ![self] =
                    Done(rec, Res("InvalidParticipantError", "self", 0, 0, <<>>))]
           ELSE IF hit # {}
           THEN LET c == CHOOSE c \in hit : TRUE
                IN  procs' = [procs EXCEPT ![self] =
                        Done([rec EXCEPT !.nstore = 1],
                             Res("ok", "existing", c.id, OtherParticipant(c, user), <<>>))]
           ELSE procs' = [procs EXCEPT ![self] =
                    [rec EXCEPT !.pc = "goc_insert", !.nstore = 1]]
        /\ UNCHANGED <<conversations, messages, nextConvId, nextMsgId, now>>
        /\ served' = served + 1

\* supabase.table("conversations").insert(new_conv_data).execute()
GetOrCreateInsert(self) ==
    LET rec == procs[self]
        pair == OrderPair(rec.user, rec.other)
    IN  /\ rec.pc = "goc_insert"
        /\ nextConvId <= MaxConvs
        /\ IF CheckOrdered(pair[1], pair[2]) /\ UniquePair(pair[1], pair[2])
           THEN /\ conversations' = conversations \cup {NewConvRow(pair[1], pair[2])}
                /\ nextConvId' = nextConvId + 1
                /\ now' = now + 1
                /\ procs' = [procs EXCEPT ![self] =
                       [rec EXCEPT !.pc = "goc_fetch", !.conv = nextConvId,
                                   !.nstore = rec.nstore + 1]]
           ELSE /\ procs' = [procs EXCEPT ![self] =
                       Done([rec EXCEPT !.nstore = rec.nstore + 1],
                            Res("Exception",
                                IF CheckOrdered(pair[1], pair[2])
                                THEN "unique_violation" ELSE "check_violation",
                                0, 0, <<>>))]
                /\ UNCHANGED <<conversations, nextConvId, now, served>>
        /\ UNCHANGED <<messages, nextMsgId, served>>

\* the SELECT by id that follows the insert
GetOrCreateFetch(self) ==
    LET rec == procs[self]
        got == ConvsById(rec.conv)
    IN  /\ rec.pc = "goc_fetch"
        /\ IF got = {}
           THEN procs' = [procs EXCEPT ![self] =
                    Done([rec EXCEPT !.nstore = rec.nstore + 1],
                         Res("Exception", "fetch_failed", 0, 0, <<>>))]
           ELSE LET c == CHOOSE c \in got : TRUE
                IN  procs' = [procs EXCEPT ![self] =
                        Done([rec EXCEPT !.nstore = rec.nstore + 1],
                             Res("ok", "created", c.id, OtherParticipant(c, rec.user), <<>>))]
        /\ UNCHANGED <<conversations, messages, nextConvId, nextMsgId, now, served>>

\* ---------------------------------------------------------------- send_message
\* the request body becomes a MessageCreate, then send_message runs up to and
\* including its first store call (the conversation select) and the encryption
SendCall(self, conv, sender, raw, iv) ==
    LET content == ValidatedContent(raw)
        rec == [Idle EXCEPT !.op = "send", !.user = sender, !.conv = conv,
                            !.text = content]
        got == ConvsById(conv)
    IN  /\ Free(self)
        /\ IF ContentRejected(raw)
           THEN procs' = [procs EXCEPT ![self] =
                    Done([rec EXCEPT !.text = raw],
                         Res("ValidationError", "blank", 0, 0, <<>>))]
           ELSE IF got = {}
           THEN procs' = [procs EXCEPT ![self] =
                    Done([rec EXCEPT !.nstore = 1],
                         Res("ConversationNotFoundError", "", 0, 0, <<>>))]
           ELSE IF ~IsParticipant(CHOOSE c \in got : TRUE, sender)
           THEN procs' = [procs EXCEPT ![self] =
                    Done([rec EXCEPT !.nstore = 1],
                         Res("UnauthorizedError", "", 0, 0, <<>>))]
           ELSE IF EncryptFails(content)
           THEN procs' = [procs EXCEPT ![self] =
                    Done([rec EXCEPT !.nstore = 1],
                         Res("Exception", "encrypt_failed", 0, 0, <<>>))]
           ELSE procs' = [procs EXCEPT ![self] =
                    [rec EXCEPT !.pc = "send_insert", !.nstore = 1,
                                !.token = encrypt_message(content, iv)]]
        /\ UNCHANGED <<conversations, messages, nextConvId, nextMsgId, now>>
        /\ served' = served + 1

\* an insert that stores the row before the store has accepted it
InsertMessage_Always(row) == messages \cup {row}

\* the messages table after .insert(message_insert).execute(): the row is
\* added, or the store raises and the table is as it was
InsertMessage(row) ==
    IF ForeignKeyOk(row.conv) THEN messages \cup {row} ELSE messages

\* supabase.table("messages").insert(message_insert).execute() and the return
SendInsert(self) ==
    LET rec == procs[self]
        row == NewMsgRow(rec.conv, rec.user, rec.token)
    IN  /\ rec.pc = "send_insert"
        /\ nextMsgId <= MaxMsgs
        /\ messages' = InsertMessage(row)
        /\ IF ForeignKeyOk(rec.conv)
           THEN /\ nextMsgId' = nextMsgId + 1
                /\ now' = now + 1
                /\ procs' = [procs EXCEPT ![self] =
                       Done([rec EXCEPT !.nstore = rec.nstore + 1],
                            Res("ok", "sent", row.id, 0, rec.text))]
           ELSE /\ procs' = [procs EXCEPT ![self] =
                       Done([rec EXCEPT !.nstore = rec.nstore + 1],
                            Res("Exception", "fk_violation", 0, 0, <<>>))]
                /\ UNCHANGED <<nextMsgId, now>>
        /\ UNCHANGED <<conversations, nextConvId, served>>

\* ------------------------------------------------------- mark_messages_as_read
\* the loop of mark_messages_as_read moves to the next id, or returns the count
MarkReadAdvance(rec, count, calls) ==
    IF rec.idx >= Len(rec.ids)
    THEN Done([rec EXCEPT !.count = count, !.nstore = rec.nstore + calls],
              Res("ok", "marked", 0, count, <<>>))
    ELSE [rec EXCEPT !.pc = "mr_select", !.idx = rec.idx + 1, !.count = count,
                     !.nstore = rec.nstore + calls]

\* the sender test left out
MayMark_Always(msg, user) == TRUE

\* "Only update if user is not the sender"
MayMark(msg, user) == msg.sender # user

\* an update that flips the flag instead of setting it
UpdateReadById_Toggle(id) ==
    {IF m.id = id THEN [m EXCEPT !.is_read = ~m.is_read] ELSE m : m \in messages}

\* what .update({"is_read": True}).eq("id", id) does to the table
UpdateReadById(id) ==
    {IF m.id = id THEN [m EXCEPT !.is_read = TRUE] ELSE m : m \in messages}

\* the rows that update returns (update_response.data)
UpdatedById(id) == MsgsById(id)

MarkReadCall(self, user, ids) ==
    LET rec == [Idle EXCEPT !.op = "markRead", !.user = user, !.ids = ids]
    IN  /\ Free(self)
        /\ IF ids = <<>>
           THEN procs' = [procs EXCEPT ![self] =
                    Done(rec, Res("ok", "marked", 0, 0, <<>>))]
           ELSE procs' = [procs EXCEPT ![self] =
                    [rec EXCEPT !.pc = "mr_select", !.idx = 1]]
        /\ UNCHANGED <<conversations, messages, nextConvId, nextMsgId, now>>
        /\ served' = served + 1

\* the select of sender_id, conversation_id for the current id
MarkReadSelect(self) ==
    LET rec == procs[self]
        got == MsgsById(rec.ids[rec.idx])
    IN  /\ rec.pc = "mr_select"
        /\ IF got = {}
           THEN procs' = [procs EXCEPT ![self] = MarkReadAdvance(rec, rec.count, 1)]
           ELSE IF MayMark(CHOOSE m \in got : TRUE, rec.user)
           THEN procs' = [procs EXCEPT ![self] =
                    [rec EXCEPT !.pc = "mr_update", !.nstore = rec.nstore + 1]]
           ELSE procs' = [procs EXCEPT ![self] = MarkReadAdvance(rec, rec.count, 1)]
        /\ UNCHANGED <<conversations, messages, nextConvId, nextMsgId, now, served>>

\* the update of the current id, counted when it returns a row
MarkReadUpdate(self) ==
    LET rec == procs[self]
        id == rec.ids[rec.idx]
    IN  /\ rec.pc = "mr_update"
        /\ messages' = UpdateReadById(id)
        /\ procs' = [procs EXCEPT ![self] =
               MarkReadAdvance(rec,
                   IF UpdatedById(id) # {} THEN rec.count + 1 ELSE rec.count, 1)]
        /\ UNCHANGED <<conversations, nextConvId, nextMsgId, now, served>>

\* --------------------------------------------------- mark_conversation_as_read
\* a filter without .neq("sender_id", user)
UnreadFor_AnySender(conv, user) ==
    {m \in messages : m.conv = conv /\ m.is_read = FALSE}

\* the rows matched by .eq(conversation_id).eq(is_read, False).neq(sender_id)
UnreadFor(conv, user) ==
    {m \in messages : m.conv = conv /\ m.is_read = FALSE /\ m.sender # user}

MarkConvReadCall(self, conv, user) ==
    LET rec == [Idle EXCEPT !.op = "markConvRead", !.user = user, !.conv = conv,
                            !.nstore = 1]
        got == ConvsById(conv)
    IN  /\ Free(self)
        /\ IF got = {}
           THEN procs' = [procs EXCEPT ![self] =
                    Done(rec, Res("ConversationNotFoundError", "", 0, 0, <<>>))]
           ELSE IF ~IsParticipant(CHOOSE c \in got : TRUE, user)
           THEN procs' = [procs EXCEPT ![self] =
                    Done(rec, Res("UnauthorizedError", "", 0, 0, <<>>))]
           ELSE procs' = [procs EXCEPT ![self] = [rec EXCEPT !.pc = "mcr_update"]]
        /\ UNCHANGED <<conversations, messages, nextConvId, nextMsgId, now>>
        /\ served' = served + 1

MarkConvReadUpdate(self) ==
    LET rec == procs[self]
        hit == UnreadFor(rec.conv, rec.user)
    IN  /\ rec.pc = "mcr_update"
        /\ messages' = {IF m \in hit THEN [m EXCEPT !.is_read = TRUE] ELSE m :
                          m \in messages}
        /\ procs' = [procs EXCEPT ![self] =
               Done([rec EXCEPT !.nstore = rec.nstore + 1],
                    Res("ok", "marked", 0, Cardinality(hit), <<>>))]
        /\ UNCHANGED <<conversations, nextConvId, nextMsgId, now, served>>

\* ---------------------------------------------------------- delete_conversation
DeleteCall(self, conv, user) ==
    LET rec == [Idle EXCEPT !.op = "delete", !.user = user, !.conv = conv,
                            !.nstore = 1]
        got == ConvsById(conv)
    IN  /\ Free(self)
        /\ IF got = {}
           THEN procs' = [procs EXCEPT ![self] =
                    Done(rec, Res("ConversationNotFoundError", "", 0, 0, <<>>))]
           ELSE IF ~IsParticipant(CHOOSE c \in got : TRUE, user)
           THEN procs' = [procs EXCEPT ![self] =
                    Done(rec, Res("UnauthorizedError", "", 0, 0, <<>>))]
           ELSE procs' = [procs EXCEPT ![self] = [rec EXCEPT !.pc = "del_delete"]]
        /\ UNCHANGED <<conversations, messages, nextConvId, nextMsgId, now>>
        /\ served' = served + 1

\* .delete().eq("id", id): the row goes, its messages go with it (CASCADE);
\* the method returns bool(delete_response.data)
DeleteExec(self) ==
    LET rec == procs[self]
        got == ConvsById(rec.conv)
    IN  /\ rec.pc = "del_delete"
        /\ conversations' = conversations \ got
        /\ messages' = IF got = {} THEN messages ELSE CascadeDelete(rec.conv)
        /\ procs' = [procs EXCEPT ![self] =
               Done([rec EXCEPT !.nstore = rec.nstore + 1],
                    Res("ok", "deleted", rec.conv, IF got = {} THEN 0 ELSE 1, <<>>))]
        /\ UNCHANGED <<nextConvId, nextMsgId, now, served>>

\* ------------------------------------------------------------ get_unread_count
\* the orders in which the store may return the rows of a set
Orderings(S) ==
    {f \in [1..Cardinality(S) -> S] : \A i, j \in 1..Cardinality(S) : i # j => f[i] # f[j]}

\* .select("id").eq("participant_1_id", user)
ConvIdsAsFirst(user) == {c.id : c \in {c \in conversations : c.p1 = user}}

\* .select("id").eq("participant_2_id", user)
ConvIdsAsSecond(user) == {c.id : c \in {c \in conversations : c.p2 = user}}

\* a count that takes every unread message, the viewer's own included
UnreadIn_AnySender(conv, user) ==
    Cardinality({m \in messages : m.conv = conv /\ m.is_read = FALSE})

\* .select("id", count="exact").eq(conversation_id).eq(is_read, False).neq(sender_id)
UnreadIn(conv, user) == Cardinality(UnreadFor(conv, user))

\* what get_unread_count returns when nothing writes to the store meanwhile:
\* the counts of the conversations of both selects, added up
UnreadCountResult(user) ==
    LET ids == (CHOOSE s \in Orderings(ConvIdsAsFirst(user)) : TRUE) \o
               (CHOOSE s \in Orderings(ConvIdsAsSecond(user)) : TRUE)
    IN  SumSeq([i \in 1..Len(ids) |-> UnreadIn(ids[i], user)])

\* the call, up to and including the first select (conv1)
UnreadCountCall(self, user) ==
    LET rec == [Idle EXCEPT !.op = "unreadCount", !.user = user, !.nstore = 1]
    IN  /\ Free(self)
        /\ \E conv1 \in Orderings(ConvIdsAsFirst(user)) :
               procs' = [procs EXCEPT ![self] =
                   [rec EXCEPT !.pc = "uc_conv2", !.ids = conv1]]
        /\ UNCHANGED <<conversations, messages, nextConvId, nextMsgId, now>>
        /\ served' = served + 1

\* the second select (conv2); no conversation at all returns 0 at once
UnreadCountConv2(self) ==
    LET rec == procs[self]
    IN  /\ rec.pc = "uc_conv2"
        /\ \E conv2 \in Orderings(ConvIdsAsSecond(rec.user)) :
               LET conversation_ids == rec.ids \o conv2
               IN  procs' = [procs EXCEPT ![self] =
                       IF conversation_ids = <<>>
                       THEN Done([rec EXCEPT !.nstore = rec.nstore + 1],
                                 Res("ok", "count", 0, 0, <<>>))
                       ELSE [rec EXCEPT !.pc = "uc_count", !.ids = conversation_ids,
                                        !.idx = 1, !.count = 0,
                                        !.nstore = rec.nstore + 1]]
        /\ UNCHANGED <<conversations, messages, nextConvId, nextMsgId, now, served>>

\* one turn of the loop: the unread count of the next conversation is added
UnreadCountLoop(self) ==
    LET rec == procs[self]
        total_unread == rec.count + UnreadIn(rec.ids[rec.idx], rec.user)
    IN  /\ rec.pc = "uc_count"
        /\ procs' = [procs EXCEPT ![self] =
               IF rec.idx >= Len(rec.ids)
               THEN Done([rec EXCEPT !.count = total_unread,
                                     !.nstore = rec.nstore + 1],
                         Res("ok", "count", 0, total_unread, <<>>))
               ELSE [rec EXCEPT !.idx = rec.idx + 1, !.count = total_unread,
                                !.nstore = rec.nstore + 1]]
        /\ UNCHANGED <<conversations, messages, nextConvId, nextMsgId, now, served>>

\* ------------------------------------------------------ get_conversation_by_id
\* one store call; the row found is formatted for the viewer
GetByIdCall(self, conv, user) ==
    LET rec == [Idle EXCEPT !.op = "getById", !.user = user, !.conv = conv,
                            !.nstore = 1]
        got == ConvsById(conv)
    IN  /\ Free(self)
        /\ IF got = {}
           THEN procs' = [procs EXCEPT ![self] =
                    Done(rec, Res("ConversationNotFoundError", "", 0, 0, <<>>))]
           ELSE IF ~IsParticipant(CHOOSE c \in got : TRUE, user)
           THEN procs' = [procs EXCEPT ![self] =
                    Done(rec, Res("UnauthorizedError", "", 0, 0, <<>>))]
           ELSE LET c == CHOOSE c \in got : TRUE
                IN  procs' = [procs EXCEPT ![self] =
                        Done(rec, Res("ok", "found", c.id, OtherParticipant(c, user), <<>>))]
        /\ UNCHANGED <<conversations, messages, nextConvId, nextMsgId, now>>
        /\ served' = served + 1

\* ------------------------------------------------------------------ timestamps
\* The store holds timestamps and hands them out as ISO 8601 text with the
\* fraction's trailing zeros dropped ("...:33.7562+00:00", "...:33+00:00").
\* Here a timestamp t counts half seconds: it reads "s+" or "s.5+".
Plus == 43                  \* '+'
Dot == 46                   \* '.'
Digit0 == 48                \* '0'

IsoFormat(t) ==
    <<Digit0 + (t \div 2)>> \o (IF t % 2 = 0 THEN <<>> ELSE <<Dot, Digit0 + 5>>) \o <<Plus>>

\* datetime.fromisoformat on such text
FromIsoFormat(s) == 2 * (s[1] - Digit0) + (IF s[2] = Dot THEN 1 ELSE 0)

\* Python's < on str: by the first character that differs, a proper prefix first
RECURSIVE StrLess(_, _)
StrLess(a, b) ==
    IF b = <<>> THEN FALSE
    ELSE IF a = <<>> THEN TRUE
    ELSE IF Head(a) # Head(b) THEN Head(a) < Head(b)
    ELSE StrLess(Tail(a), Tail(b))

\* ---------------------------------------------------- get_conversation_messages
\* .eq("conversation_id", conv) on messages
MsgsOf(conv) == {m \in messages : m.conv = conv}

\* an ordering oldest first
NewestFirst_Oldest(S) ==
    {s \in Orderings(S) :
        \A i, j \in 1..Cardinality(S) : i < j => s[i].created_at <= s[j].created_at}

\* .order("created_at", desc=True): what the store may return, rows of equal
\* timestamp in either order
NewestFirst(S) ==
    {s \in Orderings(S) :
        \A i, j \in 1..Cardinality(S) : i < j => s[i].created_at >= s[j].created_at}

\* .range(offset, offset + page_size - 1), rows counted from 0, both ends included
Range(s, offset, page_size) ==
    IF offset >= Len(s) THEN <<>>
    ELSE SubSeq(s, offset + 1,
                IF offset + page_size < Len(s) THEN offset + page_size ELSE Len(s))

\* the dict appended for a row that decrypts
FormatMessage(m) ==
    [id |-> m.id, conv |-> m.conv, sender |-> m.sender,
     content |-> decrypt_message(m.content), is_read |-> m.is_read,
     created_at |-> FromIsoFormat(IsoFormat(m.created_at))]

\* a loop that stops at the first row that does not decrypt
RECURSIVE DecryptAndFormat_Stop(_)
DecryptAndFormat_Stop(data) ==
    IF data = <<>> \/ DecryptFails(Head(data).content) THEN <<>>
    ELSE <<FormatMessage(Head(data))>> \o DecryptAndFormat_Stop(Tail(data))

\* the loop over messages_response.data: try, and on failure "continue"
RECURSIVE DecryptAndFormat(_)
DecryptAndFormat(data) ==
    IF data = <<>> THEN <<>>
    ELSE (IF DecryptFails(Head(data).content) THEN <<>>
          ELSE <<FormatMessage(Head(data))>>) \o DecryptAndFormat(Tail(data))

\* has_more computed without the page number
HasMore_FirstPage(page, page_size, total_count) == page_size < total_count

\* has_more = (page * page_size) < total_count
HasMore(page, page_size, total_count) == (page * page_size) < total_count

\* the call, up to and including the conversation select
ListMessagesCall(self, conv, user, page, page_size) ==
    LET rec == [Idle EXCEPT !.op = "listMessages", !.user = user, !.conv = conv,
                            !.page = page, !.size = page_size, !.nstore = 1]
        got == ConvsById(conv)
    IN  /\ Free(self)
        /\ IF got = {}
           THEN procs' = [procs EXCEPT ![self] =
                    Done(rec, Res("ConversationNotFoundError", "", 0, 0, <<>>))]
           ELSE IF ~IsParticipant(CHOOSE c \in got : TRUE, user)
           THEN procs' = [procs EXCEPT ![self] =
                    Done(rec, Res("UnauthorizedError", "", 0, 0, <<>>))]
           ELSE procs' = [procs EXCEPT ![self] = [rec EXCEPT !.pc = "lm_count"]]
        /\ UNCHANGED <<conversations, messages, nextConvId, nextMsgId, now>>
        /\ served' = served + 1

\* the count="exact" select
ListMessagesCount(self) ==
    LET rec == procs[self]
    IN  /\ rec.pc = "lm_count"
        /\ procs' = [procs EXCEPT ![self] =
               [rec EXCEPT !.pc = "lm_range", !.count = Cardinality(MsgsOf(rec.conv)),
                           !.nstore = rec.nstore + 1]]
        /\ UNCHANGED <<conversations, messages, nextConvId, nextMsgId, now, served>>

\* the ordered range select, the decrypt loop and the response
ListMessagesRange(self) ==
    LET rec == procs[self]
        offset == (rec.page - 1) * rec.size
    IN  /\ rec.pc = "lm_range"
        /\ \E ordered \in NewestFirst(MsgsOf(rec.conv)) :
               LET data == Range(ordered, offset, rec.size)
               IN  procs' = [procs EXCEPT ![self] =
                       IF data = <<>>
                       THEN Done([rec EXCEPT !.rows = data, !.out = <<>>, !.total = 0,
                                             !.more = FALSE,
                                             !.nstore = rec.nstore + 1],
                                 Res("ok", "empty", 0, 0, <<>>))
                       ELSE Done([rec EXCEPT !.rows = data,
                                             !.out = DecryptAndFormat(data),
                                             !.total = rec.count,
                                             !.more = HasMore(rec.page, rec.size, rec.count),
                                             !.nstore = rec.nstore + 1],
                                 Res("ok", "listed", 0, Len(DecryptAndFormat(data)), <<>>))]
        /\ UNCHANGED <<conversations, messages, nextConvId, nextMsgId, now, served>>

\* ------------------------------------------------------ get_user_conversations
\* .eq("participant_1_id", user) on conversations
ConvsAsFirst(user) == {c \in conversations : c.p1 = user}

\* .eq("participant_2_id", user) on conversations
ConvsAsSecond(user) == {c \in conversations : c.p2 = user}

\* .order("last_message_at", desc=True): what the store may return
LatestFirst(S) ==
    {s \in Orderings(S) :
        \A i, j \in 1..Cardinality(S) :
            i < j => s[i].last_message_at >= s[j].last_message_at}

\* key=lambda x: x.get("last_message_at", ""): the timestamp's text
SortKey(c) == IsoFormat(c.last_message_at)

\* x put behind every element whose key is not below its own
RECURSIVE InsertDesc(_, _)
InsertDesc(x, s) ==
    IF s = <<>> THEN <<x>>
    ELSE IF StrLess(SortKey(Head(s)), SortKey(x)) THEN <<x>> \o s
    ELSE <<Head(s)>> \o InsertDesc(x, Tail(s))

\* the two results put together and left as they are
SortDesc_None(s) == s

\* list.sort(key=..., reverse=True): descending, equal keys in their first order
RECURSIVE SortDesc(_)
SortDesc(s) ==
    IF s = <<>> THEN <<>>
    ELSE InsertDesc(s[Len(s)], SortDesc(SubSeq(s, 1, Len(s) - 1)))

\* a slice that takes the element at stop as well
PySlice_Inclusive(s, start, stop) ==
    IF start >= Len(s) THEN <<>>
    ELSE SubSeq(s, start + 1, IF stop + 1 < Len(s) THEN stop + 1 ELSE Len(s))

\* all_conversations[offset : offset + page_size]
PySlice(s, start, stop) ==
    IF start >= Len(s) THEN <<>>
    ELSE SubSeq(s, start + 1, IF stop < Len(s) THEN stop ELSE Len(s))

\* the call, up to and including query1
ListConvsCall(self, user, page, page_size) ==
    LET rec == [Idle EXCEPT !.op = "listConversations", !.user = user,
                            !.page = page, !.size = page_size, !.nstore = 1]
    IN  /\ Free(self)
        /\ \E result1 \in LatestFirst(ConvsAsFirst(user)) :
               procs' = [procs EXCEPT ![self] =
                   [rec EXCEPT !.pc = "lc_query2", !.rows = result1]]
        /\ UNCHANGED <<conversations, messages, nextConvId, nextMsgId, now>>
        /\ served' = served + 1

\* query2, then combine, sort, count and cut out the page
ListConvsQuery2(self) ==
    LET rec == procs[self]
        offset == (rec.page - 1) * rec.size
    IN  /\ rec.pc = "lc_query2"
        /\ \E result2 \in LatestFirst(ConvsAsSecond(rec.user)) :
               LET all_conversations == SortDesc(rec.rows \o result2)
                   paginated == PySlice(all_conversations, offset, offset + rec.size)
               IN  procs' = [procs EXCEPT ![self] =
                       IF paginated = <<>>
                       THEN Done([rec EXCEPT !.rows = paginated, !.out = <<>>,
                                             !.total = Len(all_conversations),
                                             !.nstore = rec.nstore + 1],
                                 Res("ok", "listed", 0, 0, <<>>))
                       ELSE [rec EXCEPT !.pc = "lc_last", !.rows = paginated,
                                        !.idx = 1, !.out = <<>>,
                                        !.total = Len(all_conversations),
                                        !.nstore = rec.nstore + 1]]
        /\ UNCHANGED <<conversations, messages, nextConvId, nextMsgId, now, served>>

\* _format_conversation_with_last_message: the newest message of the row's
\* conversation (limit 1), None when there is none or it does not decrypt
ListConvsLastMsg(self) ==
    LET rec == procs[self]
        conv == rec.rows[rec.idx]
    IN  /\ rec.pc = "lc_last"
        /\ \E ordered \in NewestFirst(MsgsOf(conv.id)) :
               LET data == Range(ordered, 0, 1)
               IN  procs' = [procs EXCEPT ![self] =
                       [rec EXCEPT !.pc = "lc_unread",
                                   !.last = IF data = <<>> \/ DecryptFails(data[1].content)
                                            THEN <<>>
                                            ELSE <<FormatMessage(data[1])>>,
                                   !.nstore = rec.nstore + 1]]
        /\ UNCHANGED <<conversations, messages, nextConvId, nextMsgId, now, served>>

\* _format_conversation_with_last_message: the unread count; the formatted
\* conversation joins the response, and the loop goes on or the call returns
ListConvsUnread(self) ==
    LET rec == procs[self]
        conv == rec.rows[rec.idx]
        formatted == [id |-> conv.id,
                      other |-> OtherParticipant(conv, rec.user),
                      last_message_at |-> FromIsoFormat(IsoFormat(conv.last_message_at)),
                      last_message |-> rec.last,
                      unread_count |-> UnreadIn(conv.id, rec.user)]
        out == Append(rec.out, formatted)
    IN  /\ rec.pc = "lc_unread"
        /\ procs' = [procs EXCEPT ![self] =
               IF rec.idx >= Len(rec.rows)
               THEN Done([rec EXCEPT !.out = out, !.last = <<>>,
                                     !.nstore = rec.nstore + 1],
                         Res("ok", "listed", 0, Len(out), <<>>))
               ELSE [rec EXCEPT !.pc = "lc_last", !.idx = rec.idx + 1, !.out = out,
                                !.last = <<>>, !.nstore = rec.nstore + 1]]
        /\ UNCHANGED <<conversations, messages, nextConvId, nextMsgId, now, served>>

\* -------------------------------------------------------------- search_messages
\* the alphabet: 0 is the space, 1 is "a", 2 is "A", the rest has no case
LowerA == 1
UpperA == 2

\* str.lower()
ToLower(s) == [i \in 1..Len(s) |-> IF s[i] = UpperA THEN LowerA ELSE s[i]]

\* Python's  q in s  on str
Contains(q, s) ==
    \E i \in 0..(Len(s) - Len(q)) : SubSeq(s, i + 1, i + Len(q)) = q

\* a search that looks at the stored content as it is
MatchText_Cipher(m) == m.content

\* the text the query is tested against: decrypt_message(content_encrypted)
MatchText(m) == decrypt_message(m.content)

\* the loop over one conversation's rows: a row that fails to decrypt is
\* skipped, a row that decrypts is kept when its lowered text holds the
\* lowered query
RECURSIVE SearchRows(_, _)
SearchRows(data, query_lower) ==
    IF data = <<>> THEN <<>>
    ELSE (IF ~DecryptFails(Head(data).content) /\
             Contains(query_lower, ToLower(MatchText(Head(data))))
          THEN <<FormatMessage(Head(data))>>
          ELSE <<>>) \o SearchRows(Tail(data), query_lower)

\* x put behind every element that is not older than x
RECURSIVE InsertNewest(_, _)
InsertNewest(x, s) ==
    IF s = <<>> THEN <<x>>
    ELSE IF Head(s).created_at < x.created_at THEN <<x>> \o s
    ELSE <<Head(s)>> \o InsertNewest(x, Tail(s))

\* the matches left in the order they were found
SortNewest_None(s) == s

\* matching_messages.sort(key=created_at, reverse=True): stable, newest first
RECURSIVE SortNewest(_)
SortNewest(s) ==
    IF s = <<>> THEN <<>>
    ELSE InsertNewest(s[Len(s)], SortNewest(SubSeq(s, 1, Len(s) - 1)))

\* the call, up to and including its first select; conv = 0 is "no
\* conversation_id given".  A named conversation that is missing, or not the
\* user's, gives the empty list, not an error.
SearchCall(self, user, query, conv) ==
    LET rec == [Idle EXCEPT !.op = "search", !.user = user, !.conv = conv,
                            !.text = query, !.nstore = 1]
        got == ConvsById(conv)
    IN  /\ Free(self)
        /\ IF conv # 0
           THEN procs' = [procs EXCEPT ![self] =
                    IF got = {} \/ ~IsParticipant(CHOOSE c \in got : TRUE, user)
                    THEN Done(rec, Res("ok", "nothing", 0, 0, <<>>))
                    ELSE [rec EXCEPT !.pc = "sm_msgs", !.ids = <<conv>>, !.idx = 1]]
           ELSE \E conv1 \in Orderings(ConvIdsAsFirst(user)) :
                    procs' = [procs EXCEPT ![self] =
                        [rec EXCEPT !.pc = "sm_conv2", !.ids = conv1]]
        /\ UNCHANGED <<conversations, messages, nextConvId, nextMsgId, now>>
        /\ served' = served + 1

\* the second select (conv2); no conversation at all returns the empty list
SearchConv2(self) ==
    LET rec == procs[self]
    IN  /\ rec.pc = "sm_conv2"
        /\ \E conv2 \in Orderings(ConvIdsAsSecond(rec.user)) :
               LET conversation_ids == rec.ids \o conv2
               IN  procs' = [procs EXCEPT ![self] =
                       IF conversation_ids = <<>>
                       THEN Done([rec EXCEPT !.nstore = rec.nstore + 1],
                                 Res("ok", "nothing", 0, 0, <<>>))
                       ELSE [rec EXCEPT !.pc = "sm_msgs", !.ids = conversation_ids,
                                        !.idx = 1, !.nstore = rec.nstore + 1]]
        /\ UNCHANGED <<conversations, messages, nextConvId, nextMsgId, now, served>>

\* one turn of the loop: the rows of the next conversation, in whatever order
\* the store returns them, are decrypted and searched; after the last
\* conversation the matches are sorted and returned
SearchMessages(self) ==
    LET rec == procs[self]
    IN  /\ rec.pc = "sm_msgs"
        /\ \E data \in Orderings(MsgsOf(rec.ids[rec.idx])) :
               LET matching == rec.out \o SearchRows(data, ToLower(rec.text))
               IN  procs' = [procs EXCEPT ![self] =
                       IF rec.idx >= Len(rec.ids)
                       THEN Done([rec EXCEPT !.out = SortNewest(matching),
                                             !.nstore = rec.nstore + 1],
                                 Res("ok", "found", 0, Len(matching), <<>>))
                       ELSE [rec EXCEPT !.idx = rec.idx + 1, !.out = matching,
                                        !.nstore = rec.nstore + 1]]
        /\ UNCHANGED <<conversations, messages, nextConvId, nextMsgId, now, served>>

\* ------------------------------------------------------------------------ next
\* the ids a request can name: those the store has handed out so far (their
\* rows may be gone again) and one it has not
ConvIds == 1..nextConvId

MsgIds == 1..nextMsgId

IdLists == UNION {[1..n -> MsgIds] : n \in 0..MaxIds}

\* one store call, or a whole rejected request, of process self
Step(self) ==
    \/ \E u \in Users, p \in Users : GetOrCreateCall(self, u, p)
    \/ GetOrCreateInsert(self)
    \/ GetOrCreateFetch(self)
    \/ \E c \in ConvIds, u \in Users, raw \in RawTexts, iv \in IVs :
           SendCall(self, c, u, raw, iv)
    \/ SendInsert(self)
    \/ \E u \in Users, ids \in IdLists : MarkReadCall(self, u, ids)
    \/ MarkReadSelect(self)
    \/ MarkReadUpdate(self)
    \/ \E c \in ConvIds, u \in Users : MarkConvReadCall(self, c, u)
    \/ MarkConvReadUpdate(self)
    \/ \E c \in ConvIds, u \in Users : DeleteCall(self, c, u)
    \/ DeleteExec(self)
    \/ \E c \in ConvIds, u \in Users : GetByIdCall(self, c, u)

\* requests run in parallel, their store calls interleaved
Next == \E self \in Procs : Step(self)

Spec == Init /\ [][Next]_vars

\* requests run one after the other: a single process serves them all
NextSeq == Step(1)

SpecSeq == Init /\ [][NextSeq]_vars

\* the page numbers and page sizes a listing is asked for (Query(ge=1))
Pages == 1..MaxPage

Sizes == 1..MaxSize

\* one store call of a request that only reads
ReadStep(self) ==
    \/ \E u \in Users : UnreadCountCall(self, u)
    \/ UnreadCountConv2(self)
    \/ UnreadCountLoop(self)
    \/ \E c \in ConvIds, u \in Users, page \in Pages, page_size \in Sizes :
           ListMessagesCall(self, c, u, page, page_size)
    \/ ListMessagesCount(self)
    \/ ListMessagesRange(self)
    \/ \E u \in Users, page \in Pages, page_size \in Sizes :
           ListConvsCall(self, u, page, page_size)
    \/ ListConvsQuery2(self)
    \/ ListConvsLastMsg(self)
    \/ ListConvsUnread(self)
    \/ \E u \in Users, q \in Queries, c \in ConvIds \cup {0} :
           SearchCall(self, u, q, c)
    \/ SearchConv2(self)
    \/ SearchMessages(self)

\* requests of every kind, one after the other, on a store that earlier
\* requests have filled
NextRead == Step(1) \/ ReadStep(1)

SpecRead == InitRead /\ [][NextRead]_vars

\* ---------------------------------------------------------- the cipher alone
\* every string of at most MaxLen characters
Texts == UNION {[1..n -> 0..(NumChars - 1)] : n \in 0..MaxLen}

\* encrypt_message(content): ValueError on empty or blank content, else a token
EncryptCall(self, content, iv) ==
    LET rec == [Idle EXCEPT !.op = "encrypt", !.text = content]
    IN  /\ Free(self)
        /\ procs' = [procs EXCEPT ![self] =
               IF EncryptFails(content)
               THEN Done(rec, Res("ValueError", "empty", 0, 0, <<>>))
               ELSE Done([rec EXCEPT !.token = encrypt_message(content, iv)],
                         Res("ok", "encrypted", 0, 0,
                             encrypt_message(content, iv)))]
        /\ UNCHANGED <<conversations, messages, nextConvId, nextMsgId, now>>
        /\ served' = served + 1

\* the tokens a caller may hand to decrypt_message: nothing, a token
\* encrypt_message returned, or such a token damaged
KnownTokens ==
    LET made == {procs[p].token : p \in {q \in Procs : procs[q].op = "encrypt" /\
                                                       procs[q].res.kind = "ok"}}
    IN  {<<>>} \cup made \cup {Corrupt(t) : t \in made}

\* decrypt_message(encrypted_content): ValueError on empty input, Exception
\* when Fernet refuses the token, else the plaintext
DecryptCall(self, tok) ==
    LET rec == [Idle EXCEPT !.op = "decrypt", !.token = tok]
    IN  /\ Free(self)
        /\ procs' = [procs EXCEPT ![self] =
               IF tok = <<>>
               THEN Done(rec, Res("ValueError", "empty", 0, 0, <<>>))
               ELSE IF DecryptFails(tok)
               THEN Done(rec, Res("Exception", "decryption_failed", 0, 0, <<>>))
               ELSE Done(rec, Res("ok", "decrypted", 0, 0, decrypt_message(tok)))]
        /\ UNCHANGED <<conversations, messages, nextConvId, nextMsgId, now>>
        /\ served' = served + 1

InitCipher ==
    /\ conversations = StoreEmpty.convs
    /\ messages = StoreEmpty.msgs
    /\ nextConvId = StoreEmpty.nextConv
    /\ nextMsgId = StoreEmpty.nextMsg
    /\ now = StoreEmpty.now
    /\ served = 0
    /\ procs = [p \in Procs |-> Idle]

\* two callers of the cipher, each holding what it was last given and what it
\* got back: the first encrypts, the second decrypts
NextCipher ==
    \/ \E content \in Texts, iv \in IVs : EncryptCall(1, content, iv)
    \/ \E tok \in KnownTokens : DecryptCall(2, tok)

SpecCipher == InitCipher /\ [][NextCipher]_vars

\* ------------------------------------------------------------- blank strings
\* the empty string and the strings of spaces of at most MaxLen characters
BlankTexts == {[i \in 1..n |-> Space] : n \in 0..MaxLen}

\* a send whose body is a blank string
SendBlank(self) ==
    \E c \in ConvIds, u \in Users, raw \in BlankTexts, iv \in IVs :
        SendCall(self, c, u, raw, iv)

\* a direct call of encrypt_message on a blank string
EncryptBlank(self) ==
    \E content \in BlankTexts, iv \in IVs : EncryptCall(self, content, iv)

\* the requests of the service, with blank strings among the bodies sent and
\* handed to the cipher, one after the other
NextBlank == Step(1) \/ SendBlank(1) \/ EncryptBlank(1)

SpecBlank == Init /\ [][NextBlank]_vars

\* ====================================================================== claims
\* the rows of conversations that pair up two users, whichever way round
PairRows(a, b) == {c \in conversations : {c.p1, c.p2} = {a, b}}

Min(a, b) == IF a < b THEN a ELSE b

Max(a, b) == IF a < b THEN b ELSE a

\* a process whose last request, of kind op, has returned
Returned(self, op) == procs[self].pc = "done" /\ procs[self].op = op

\* C1: in every reachable state, whatever requests ran and however their store
\* calls interleaved, the conversations table holds at most one row for any
\* unordered pair of users.
C1_OneConversationPerPair ==
    \A c1 \in conversations, c2 \in conversations :
        {c1.p1, c1.p2} = {c2.p1, c2.p2} => c1 = c2

\* C1 witness: two get_or_create calls for one pair both missed the lookup and
\* both tried to insert; the store turned the second insert down, and the pair
\* has its one row.
C1_Witness ==
    \E a \in Procs, b \in Procs :
        /\ a # b
        /\ procs[a].op = "getOrCreate" /\ procs[a].res.why # "unique_violation"
        /\ procs[a].pc \in {"goc_fetch", "done"} /\ procs[a].nstore >= 2
        /\ Returned(b, "getOrCreate") /\ procs[b].res.why = "unique_violation"
        /\ {procs[a].user, procs[a].other} = {procs[b].user, procs[b].other}
        /\ Cardinality(PairRows(procs[b].user, procs[b].other)) = 1

\* C2: a get_or_create call made while a conversation of the two users exists,
\* whichever of them created it, returns that conversation's id and adds no
\* row; and the id a creating call returns is that of a row of the two users.
\* So get_or_create(A,B) and get_or_create(B,A), one after the other with no
\* delete between, return the same id.
C2_SameConversationBothWays ==
    [][\A self \in Procs :
        /\ LET u == procs'[self].user
               p == procs'[self].other
           IN  (GetOrCreateCall(self, u, p) /\ u # p /\ PairRows(u, p) # {}) =>
                 /\ procs'[self].pc = "done"
                 /\ procs'[self].res.kind = "ok"
                 /\ \A c \in PairRows(u, p) : procs'[self].res.id = c.id
                 /\ conversations' = conversations
                 /\ nextConvId' = nextConvId
        /\ (GetOrCreateFetch(self) /\ procs'[self].res.kind = "ok") =>
                 \E c \in conversations' :
                     /\ c.id = procs'[self].res.id
                     /\ {c.p1, c.p2} = {procs[self].user, procs[self].other}
      ]_vars

\* C2 witness: one user created the conversation, then the other user asked
\* for it the other way round and got the same id.
C2_Witness ==
    \E a \in Procs, b \in Procs :
        /\ Returned(a, "getOrCreate") /\ procs[a].res.why = "created"
        /\ Returned(b, "getOrCreate") /\ procs[b].res.why = "existing"
        /\ procs[a].user = procs[b].other /\ procs[a].other = procs[b].user
        /\ procs[a].user < procs[a].other
        /\ procs[a].res.id = procs[b].res.id

\* C3: a get_or_create call whose insert the uniqueness constraint rejected
\* (the other caller of the race inserted first) still returns successfully,
\* with the conversation the other caller created.
C3_ConflictIsRefetched ==
    \A self \in Procs :
        (Returned(self, "getOrCreate") /\ procs[self].res.why = "unique_violation") =>
            /\ procs[self].res.kind = "ok"
            /\ \A c \in PairRows(procs[self].user, procs[self].other) :
                   procs[self].res.id = c.id

\* C4: every stored conversation has participant 1 strictly below participant
\* 2, and get_or_create always offers the store (min, max) of its two users:
\* the insert is never refused for the order, and the row it creates holds
\* the smaller user first, whichever user called.
C4_CanonicalOrder ==
    /\ \A c \in conversations : c.p1 < c.p2
    /\ \A self \in Procs :
         procs[self].op = "getOrCreate" =>
            /\ procs[self].res.why # "check_violation"
            /\ procs[self].pc = "goc_fetch" =>
                 \A c \in ConvsById(procs[self].conv) :
                     /\ c.p1 = Min(procs[self].user, procs[self].other)
                     /\ c.p2 = Max(procs[self].user, procs[self].other)

\* C4 witness: the larger user called, and the row just created holds the
\* smaller user first.
C4_Witness ==
    \E self \in Procs :
        /\ procs[self].op = "getOrCreate" /\ procs[self].pc = "goc_fetch"
        /\ procs[self].user > procs[self].other
        /\ \E c \in ConvsById(procs[self].conv) :
               c.p1 = procs[self].other /\ c.p2 = procs[self].user

\* C5: get_or_create(A, A) fails with InvalidParticipantError at once, having
\* made no store call, and leaves both tables as they were.
C5_SelfConversationRejected ==
    [][\A self \in Procs :
         LET u == procs'[self].user
         IN  GetOrCreateCall(self, u, u) =>
                /\ procs'[self].pc = "done"
                /\ procs'[self].res.kind = "InvalidParticipantError"
                /\ procs'[self].nstore = 0
                /\ conversations' = conversations
                /\ messages' = messages
      ]_vars

\* C5 witness: a self-conversation request has been turned down.
C5_Witness ==
    \E self \in Procs :
        /\ Returned(self, "getOrCreate")
        /\ procs[self].user = procs[self].other
        /\ procs[self].res.kind = "InvalidParticipantError"
\* C6: a send that succeeds adds exactly one message row, for the conversation
\* and the sender of the call, unread, whose stored content is a Fernet token
\* of the plaintext (it decrypts to the plaintext and is not the plaintext),
\* and returns that row's id with the plaintext attached; and every stored
\* message's content is a token the cipher accepts.
C6_SendStoresCiphertext ==
    /\ [][\A self \in Procs :
            (SendInsert(self) /\ procs'[self].res.kind = "ok") =>
                \E m \in messages' :
                    /\ m \notin messages
                    /\ messages' = messages \cup {m}
                    /\ m.conv = procs[self].conv
                    /\ m.sender = procs[self].user
                    /\ m.is_read = FALSE
                    /\ \E iv \in IVs :
                           m.content = FernetEncrypt(FernetKey, iv, procs[self].text)
                    /\ ~DecryptFails(m.content)
                    /\ decrypt_message(m.content) = procs[self].text
                    /\ m.content # procs[self].text
                    /\ procs'[self].res.id = m.id
                    /\ procs'[self].res.content = procs[self].text
         ]_vars
    /\ [](\A m \in messages : FernetValid(FernetKey, m.content))

\* C6 witness: a send has returned, and its row is in the table, encrypted.
C6_Witness ==
    \E self \in Procs :
        /\ Returned(self, "send") /\ procs[self].res.kind = "ok"
        /\ \E m \in MsgsById(procs[self].res.id) :
               /\ m.content # procs[self].res.content
               /\ decrypt_message(m.content) = procs[self].res.content
               /\ m.content[2] = 1

\* C7: send fails with ConversationNotFoundError when the conversation does
\* not exist, and with UnauthorizedError when it exists and the sender is
\* neither of its participants; either way the call is over and no message
\* row was inserted.
C7_SendRejections ==
    [][\A self \in Procs :
         LET c == procs'[self].conv
             u == procs'[self].user
         IN  (/\ served' = served + 1
              /\ procs'[self].op = "send"
              /\ \E raw \in RawTexts, iv \in IVs :
                     SendCall(self, c, u, raw, iv) /\ ~ContentRejected(raw)) =>
                /\ (\A row \in conversations : row.id # c) =>
                       /\ procs'[self].pc = "done"
                       /\ procs'[self].res.kind = "ConversationNotFoundError"
                       /\ messages' = messages
                /\ (\E row \in conversations : row.id = c /\ u \notin {row.p1, row.p2}) =>
                       /\ procs'[self].pc = "done"
                       /\ procs'[self].res.kind = "UnauthorizedError"
                       /\ messages' = messages
      ]_vars

\* C7 witness: one send was refused for a missing conversation, another for a
\* sender outside the conversation.
C7_Witness ==
    \E a \in Procs, b \in Procs :
        /\ Returned(a, "send") /\ procs[a].res.kind = "ConversationNotFoundError"
        /\ Returned(b, "send") /\ procs[b].res.kind = "UnauthorizedError"
        /\ \E row \in ConvsById(procs[b].conv) :
               procs[b].user \notin {row.p1, row.p2}

\* C8: in every reachable state, every stored message belongs to a stored
\* conversation and its sender is one of that conversation's two participants.
C8_SenderIsParticipant ==
    \A m \in messages :
        \E c \in conversations : c.id = m.conv /\ m.sender \in {c.p1, c.p2}

\* C8 witness: the second participant of a conversation has sent a message.
C8_Witness ==
    \E self \in Procs :
        /\ Returned(self, "send") /\ procs[self].res.kind = "ok"
        /\ \E m \in MsgsById(procs[self].res.id), c \in conversations :
               c.id = m.conv /\ m.sender = c.p2

\* C9: mark_messages_as_read never touches a message the viewer sent: on
\* finding the viewer's own message it issues no update and counts nothing,
\* and no update it issues changes a message of the viewer.
C9_OwnMessagesStayUnread ==
    [][\A self \in Procs :
         /\ (MarkReadSelect(self) /\
             \E m \in MsgsById(procs[self].ids[procs[self].idx]) :
                 m.sender = procs[self].user) =>
                /\ procs'[self].pc # "mr_update"
                /\ procs'[self].count = procs[self].count
                /\ messages' = messages
         /\ MarkReadUpdate(self) =>
                \A m \in messages : m.sender = procs[self].user => m \in messages'
      ]_vars

\* C9 witness: a user asked to mark the message they sent; the call returned 0
\* and the message is still unread.
C9_Witness ==
    \E self \in Procs :
        /\ Returned(self, "markRead") /\ Len(procs[self].ids) = 1
        /\ procs[self].res.n = 0
        /\ \E m \in MsgsById(procs[self].ids[1]) :
               m.sender = procs[self].user /\ m.is_read = FALSE

\* C10 (requests served one after the other, SpecSeq): mark_messages_as_read
\* counts exactly the messages whose read flag it turned from false to true: each update adds to the count the number of
\* rows it flipped, so an already read message adds nothing and a repeated
\* call returns 0.
C10_CountsOnlyFlips ==
    [][\A self \in Procs :
         MarkReadUpdate(self) =>
            procs'[self].count - procs[self].count =
                Cardinality({m \in messages : m.is_read = FALSE /\ m \notin messages'})
      ]_vars

\* C11: when A's send succeeds, the unread count of the other participant B
\* of the conversation goes up by exactly 1 and A's own does not change; when
\* B then marks a still unread message of A as read (mark_messages_as_read),
\* B's unread count goes down by exactly 1, that is, back to what it was.
C11_UnreadCountFollowsSendAndMark ==
    [][\A self \in Procs :
         /\ (SendInsert(self) /\ procs'[self].res.kind = "ok") =>
                \A c \in ConvsById(procs[self].conv) :
                    LET A == procs[self].user
                        B == IF c.p1 = A THEN c.p2 ELSE c.p1
                    IN  /\ UnreadCountResult(B)' = UnreadCountResult(B) + 1
                        /\ UnreadCountResult(A)' = UnreadCountResult(A)
         /\ MarkReadUpdate(self) =>
                \A m \in MsgsById(procs[self].ids[procs[self].idx]) :
                    \A c \in ConvsById(m.conv) :
                        LET B == procs[self].user
                        IN  (m.is_read = FALSE /\ B \in {c.p1, c.p2} /\ m.sender # B) =>
                                UnreadCountResult(B)' = UnreadCountResult(B) - 1
      ]_vars

\* C11 witness: A sent a message, B marked it read, and B's unread count is
\* back at 0.
C11_Witness ==
    \E a \in Procs, b \in Procs :
        /\ Returned(a, "send") /\ procs[a].res.kind = "ok"
        /\ Returned(b, "markRead") /\ procs[b].ids = <<procs[a].res.id>>
        /\ procs[b].res.n = 1
        /\ \E c \in ConvsById(procs[a].conv) :
               {procs[a].user, procs[b].user} = {c.p1, c.p2}
        /\ \A m \in MsgsById(procs[a].res.id) : m.is_read = TRUE
        /\ UnreadCountResult(procs[b].user) = 0

\* the messages a viewer has not read: unread, sent by someone else, in a
\* conversation the viewer takes part in
UnreadOfViewer(viewer) ==
    {m \in messages :
        /\ m.is_read = FALSE
        /\ m.sender # viewer
        /\ \E c \in conversations : c.id = m.conv /\ viewer \in {c.p1, c.p2}}

\* C12 (requests served one after the other, SpecRead): whatever the store
\* holds, get_unread_count(viewer) returns the number of stored messages that
\* are unread, not sent by viewer, and in a conversation of which viewer is a
\* participant; for a viewer in no conversation it returns 0 after its two
\* conversation selects.
C12_UnreadCountIsSum ==
    /\ \A u \in Users : UnreadCountResult(u) = Cardinality(UnreadOfViewer(u))
    /\ \A self \in Procs :
         Returned(self, "unreadCount") =>
            /\ procs[self].res.kind = "ok"
            /\ procs[self].res.n = Cardinality(UnreadOfViewer(procs[self].user))
            /\ (\A c \in conversations : procs[self].user \notin {c.p1, c.p2}) =>
                   procs[self].res.n = 0 /\ procs[self].nstore = 2

\* C12 witness: a viewer who is first participant of one conversation and
\* second participant of another, with unread messages in both and an unread
\* message of their own, got the count 2.
C12_Witness ==
    \E self \in Procs :
        /\ Returned(self, "unreadCount") /\ procs[self].res.n = 2
        /\ ConvIdsAsFirst(procs[self].user) # {}
        /\ ConvIdsAsSecond(procs[self].user) # {}
        /\ \E m \in messages : m.sender = procs[self].user /\ m.is_read = FALSE

\* C13: mark_conversation_as_read fails with ConversationNotFoundError when
\* the conversation is absent and with UnauthorizedError when the viewer is
\* not one of its participants, changing nothing; for a participant its one
\* update turns the read flag on in exactly the messages of that conversation
\* that are unread and not sent by the viewer, returns how many they were,
\* and leaves every message of the viewer and of any other conversation, and
\* every conversation, as it was.
C13_MarkConversationRead ==
    [][\A self \in Procs :
         LET c == procs'[self].conv
             u == procs'[self].user
         IN  /\ (/\ served' = served + 1
                 /\ procs'[self].op = "markConvRead"
                 /\ MarkConvReadCall(self, c, u)) =>
                    /\ messages' = messages /\ conversations' = conversations
                    /\ (\A row \in conversations : row.id # c) =>
                           /\ procs'[self].pc = "done"
                           /\ procs'[self].res.kind = "ConversationNotFoundError"
                    /\ (\E row \in conversations :
                            row.id = c /\ u \notin {row.p1, row.p2}) =>
                           /\ procs'[self].pc = "done"
                           /\ procs'[self].res.kind = "UnauthorizedError"
                    /\ (\E row \in conversations :
                            row.id = c /\ u \in {row.p1, row.p2}) =>
                           procs'[self].pc = "mcr_update"
             /\ MarkConvReadUpdate(self) =>
                    LET T == {m \in messages :
                                 m.conv = c /\ m.is_read = FALSE /\ m.sender # u}
                    IN  /\ messages' = (messages \ T) \cup
                                       {[m EXCEPT !.is_read = TRUE] : m \in T}
                        /\ procs'[self].res.kind = "ok"
                        /\ procs'[self].res.n = Cardinality(T)
                        /\ \A m \in messages :
                               (m.sender = u \/ m.conv # c) => m \in messages'
                        /\ conversations' = conversations
      ]_vars

\* C13 witness: a participant with an unread message of the other participant
\* and an unread message of their own marked the conversation read: the call
\* returned 1, the other's message is read, their own is not.
C13_Witness ==
    \E self \in Procs :
        /\ Returned(self, "markConvRead") /\ procs[self].res.kind = "ok"
        /\ procs[self].res.n = 1
        /\ \E m1 \in messages, m2 \in messages :
               /\ m1.conv = procs[self].conv /\ m2.conv = procs[self].conv
               /\ m1.sender # procs[self].user /\ m1.is_read = TRUE
               /\ m2.sender = procs[self].user /\ m2.is_read = FALSE

PossiblePages(conv, page, page_size) ==
    {DecryptAndFormat(Range(ordered, (page - 1) * page_size, page_size)) :
        ordered \in NewestFirst(MsgsOf(conv))}

\* C16 (SpecRead): get_conversation_messages returns its messages newest
\* first by the store's created_at: each returned message carries the
\* timestamp of its stored row and is at least as new as the one after it,
\* and every message of page p is at least as new as every message that a
\* call for page p+1, made on the unchanged conversation, returns.
C16_NewestFirst ==
    \A self \in Procs :
        (Returned(self, "listMessages") /\ procs[self].res.kind = "ok") =>
            LET out == procs[self].out
            IN  /\ \A j \in 1..Len(out) :
                       \E m \in messages : m.id = out[j].id /\ m.created_at = out[j].created_at
                /\ \A j, k \in 1..Len(out) :
                       j < k => out[j].created_at >= out[k].created_at
                /\ \A next \in PossiblePages(procs[self].conv, procs[self].page + 1,
                                             procs[self].size) :
                       \A j \in 1..Len(out), k \in 1..Len(next) :
                           out[j].created_at >= next[k].created_at

\* C16 witness: a page of two messages, the first newer than the second, with
\* a message of the second one's timestamp left for the next page.
C16_Witness ==
    \E self \in Procs :
        /\ Returned(self, "listMessages") /\ Len(procs[self].out) = 2
        /\ procs[self].out[1].created_at > procs[self].out[2].created_at
        /\ \E next \in PossiblePages(procs[self].conv, procs[self].page + 1,
                                     procs[self].size) :
               /\ next # <<>>
               /\ next[1].created_at = procs[self].out[2].created_at
               /\ next[1].id # procs[self].out[2].id

\* C17: a delete that succeeds leaves no conversation row of that id and no
\* message of that conversation; from then on no message ever refers to a
\* conversation that is not stored, every get_conversation_by_id for an id
\* that is not stored fails with ConversationNotFoundError whoever asks, and
\* a conversation created later gets an id never used before and starts
\* with no message.
C17_DeleteRemovesEverything ==
    /\ [][\A self \in Procs :
            LET c == procs'[self].conv
            IN  /\ (DeleteExec(self) /\ procs'[self].res.n = 1) =>
                       /\ \A row \in conversations' : row.id # c
                       /\ \A m \in messages' : m.conv # c
                /\ (/\ served' = served + 1
                    /\ procs'[self].op = "getById"
                    /\ GetByIdCall(self, c, procs'[self].user)
                    /\ \A row \in conversations : row.id # c) =>
                       /\ procs'[self].pc = "done"
                       /\ procs'[self].res.kind = "ConversationNotFoundError"
                /\ (GetOrCreateInsert(self) /\ conversations' # conversations) =>
                       \E row \in conversations' :
                           /\ conversations' = conversations \cup {row}
                           /\ row.id = nextConvId
                           /\ \A m \in messages' : m.conv # row.id
         ]_vars
    /\ [](\A m \in messages : \E row \in conversations : row.id = m.conv)
    /\ [](\A row \in conversations : row.id < nextConvId)

\* C17 witness: a participant deleted a conversation that held a message;
\* the other participant then asked for it and got ConversationNotFoundError,
\* and no message is left.
C17_Witness ==
    \E a \in Procs, b \in Procs :
        /\ Returned(a, "delete") /\ procs[a].res.kind = "ok" /\ procs[a].res.n = 1
        /\ Returned(b, "getById") /\ procs[b].conv = procs[a].conv
        /\ procs[b].user # procs[a].user
        /\ procs[b].res.kind = "ConversationNotFoundError"
        /\ nextMsgId > 1 /\ messages = {}

\* C18: delete_conversation asked by a user who is neither participant of a
\* stored conversation ends at once with UnauthorizedError, and asked for a
\* conversation that is not stored ends at once with
\* ConversationNotFoundError; either way both tables stay as they were.
C18_DeleteByOutsiderRefused ==
    [][\A self \in Procs :
         LET c == procs'[self].conv
             u == procs'[self].user
         IN  (/\ served' = served + 1
              /\ procs'[self].op = "delete"
              /\ DeleteCall(self, c, u)) =>
                /\ (\E row \in conversations :
                        row.id = c /\ u \notin {row.p1, row.p2}) =>
                       /\ procs'[self].pc = "done"
                       /\ procs'[self].res.kind = "UnauthorizedError"
                       /\ conversations' = conversations
                       /\ messages' = messages
                /\ (\A row \in conversations : row.id # c) =>
                       /\ procs'[self].pc = "done"
                       /\ procs'[self].res.kind = "ConversationNotFoundError"
                       /\ conversations' = conversations
                       /\ messages' = messages
      ]_vars

\* C18 witness: an outsider's delete was refused, and the conversation and
\* its message are still there.
C18_Witness ==
    \E self \in Procs :
        /\ Returned(self, "delete") /\ procs[self].res.kind = "UnauthorizedError"
        /\ \E row \in conversations :
               /\ row.id = procs[self].conv
               /\ procs[self].user \notin {row.p1, row.p2}
        /\ \E m \in messages : m.conv = procs[self].conv

\* C19: get_conversation_by_id fails with ConversationNotFoundError when no
\* conversation of that id is stored, whoever asks; with UnauthorizedError
\* when it is stored and the viewer is neither participant; and otherwise
\* returns that conversation, naming as other participant the participant
\* that is not the viewer.  It writes nothing.
C19_GetByIdOutcomes ==
    [][\A self \in Procs :
         LET c == procs'[self].conv
             u == procs'[self].user
         IN  (/\ served' = served + 1
              /\ procs'[self].op = "getById"
              /\ GetByIdCall(self, c, u)) =>
                /\ procs'[self].pc = "done"
                /\ conversations' = conversations /\ messages' = messages
                /\ (\A row \in conversations : row.id # c) =>
                       procs'[self].res.kind = "ConversationNotFoundError"
                /\ \A row \in conversations :
                       row.id = c =>
                          IF u \notin {row.p1, row.p2}
                          THEN procs'[self].res.kind = "UnauthorizedError"
                          ELSE /\ procs'[self].res.kind = "ok"
                               /\ procs'[self].res.id = row.id
                               /\ procs'[self].res.n \in {row.p1, row.p2}
                               /\ procs'[self].res.n # u
      ]_vars

\* C19 witness: participant 1 of a conversation asked for it and was given
\* participant 2 as the other participant; the other process asked for an id
\* that is not stored and got ConversationNotFoundError.
C19_Witness ==
    \E a \in Procs, b \in Procs :
        /\ Returned(a, "getById") /\ procs[a].res.kind = "ok"
        /\ \E row \in conversations :
               /\ row.id = procs[a].res.id
               /\ row.p1 = procs[a].user /\ row.p2 = procs[a].res.n
        /\ Returned(b, "getById")
        /\ procs[b].res.kind = "ConversationNotFoundError"

\* the conversations a user takes part in
ViewerConvs(u) == {c \in conversations : u \in {c.p1, c.p2}}

PosIn(s, x) == CHOOSE i \in 1..Len(s) : s[i] = x

\* res holds the rows of inp, newest last-activity first, rows of equal
\* timestamp in the order they have in inp
StableDesc(res, inp) ==
    /\ Len(res) = Len(inp)
    /\ {res[i] : i \in 1..Len(res)} = {inp[i] : i \in 1..Len(inp)}
    /\ \A i, j \in 1..Len(res) :
           i < j =>
              /\ res[i].last_message_at >= res[j].last_message_at
              /\ res[i].last_message_at = res[j].last_message_at =>
                     PosIn(inp, res[i]) < PosIn(inp, res[j])

\* page is the slice [(p-1)*s, p*s) of all
IsPageOf(page, all, p, s) ==
    /\ Len(page) = Min(s, Max(0, Len(all) - (p - 1) * s))
    /\ \A j \in 1..Len(page) : page[j] = all[(p - 1) * s + j]

\* C20 (SpecRead): get_user_conversations(user, page, page_size) returns as
\* total the number of conversations with user as either participant, and
\* as page the slice [(page-1)*page_size, page*page_size) of exactly those
\* conversations in descending order of last_message_at; each returned
\* conversation carries its stored timestamp and, as unread count, the number
\* of its messages that are unread and not sent by user.  The order is that
\* of a stable sort: the step that sorts puts conversations of equal
\* timestamp in the order the two queries delivered them, first query first.
C20_ListConversations ==
    /\ [](\A self \in Procs :
            (Returned(self, "listConversations") /\ procs[self].res.kind = "ok") =>
                LET u == procs[self].user
                    out == procs[self].out
                IN  /\ procs[self].total = Cardinality(ViewerConvs(u))
                    /\ \E all \in Orderings(ViewerConvs(u)) :
                           /\ \A i, j \in 1..Len(all) :
                                  i < j => all[i].last_message_at >= all[j].last_message_at
                           /\ IsPageOf([j \in 1..Len(out) |-> out[j].id],
                                       [i \in 1..Len(all) |-> all[i].id],
                                       procs[self].page, procs[self].size)
                    /\ \A j \in 1..Len(out) :
                           /\ \E c \in ViewerConvs(u) :
                                  /\ c.id = out[j].id
                                  /\ c.last_message_at = out[j].last_message_at
                           /\ out[j].unread_count =
                                  Cardinality({m \in messages :
                                      /\ m.conv = out[j].id
                                      /\ m.is_read = FALSE
                                      /\ m.sender # u}))
    /\ [][\A self \in Procs :
            ListConvsQuery2(self) =>
                \E result2 \in Orderings(ConvsAsSecond(procs[self].user)),
                   all \in Orderings(ViewerConvs(procs[self].user)) :
                    /\ StableDesc(all, procs[self].rows \o result2)
                    /\ IsPageOf(procs'[self].rows, all,
                                procs[self].page, procs[self].size)
                    /\ procs'[self].total = Len(all)
         ]_vars

\* C20 witness: a user in three conversations, two of them of equal
\* timestamp and newer than the third, asked for page 1 of size 2 and got
\* total 3 and the two newer ones, the one found by the first query (user as
\* participant 1) before the one found by the second, each with its unread
\* count.
C20_Witness ==
    \E self \in Procs :
        /\ Returned(self, "listConversations")
        /\ procs[self].total = 3 /\ procs[self].page = 1 /\ procs[self].size = 2
        /\ Len(procs[self].out) = 2
        /\ procs[self].out[1].last_message_at = procs[self].out[2].last_message_at
        /\ procs[self].out[1].other > procs[self].user
        /\ procs[self].out[2].other < procs[self].user
        /\ procs[self].out[2].unread_count = 1
        /\ \E c \in ViewerConvs(procs[self].user) :
               c.last_message_at < procs[self].out[2].last_message_at


\* the messages search_messages(user, query, conv) may look at: those of the
\* named conversation when user is one of its participants, those of all of
\* user's conversations when none is named (conv = 0), none otherwise
SearchScope(user, conv) ==
    IF conv = 0
    THEN {m \in messages : \E c \in ViewerConvs(user) : c.id = m.conv}
    ELSE {m \in messages : m.conv = conv /\
                           \E c \in ViewerConvs(user) : c.id = conv}

\* the plaintext of m holds query when letter case is ignored
HoldsQuery(m, query) ==
    /\ FernetValid(FernetKey, m.content)
    /\ LET plain == FernetDecrypt(FernetKey, m.content)
           fold(s) == [i \in 1..Len(s) |-> IF s[i] = UpperA THEN LowerA ELSE s[i]]
       IN  \E i \in 1..Len(plain) :
               /\ i + Len(query) - 1 <= Len(plain)
               /\ \A k \in 1..Len(query) :
                      fold(plain)[i + k - 1] = fold(query)[k]

C22_MessagesImmutable ==
    [][\A m \in messages :
          LET later == {x \in messages' : x.id = m.id}
          IN  IF later = {}
              THEN /\ \E c \in conversations : c.id = m.conv
                   /\ ~\E c \in conversations' : c.id = m.conv
              ELSE \A x \in later :
                       /\ x.conv = m.conv
                       /\ x.sender = m.sender
                       /\ x.content = m.content
                       /\ x.created_at = m.created_at
                       /\ m.is_read => x.is_read]_vars

\* C22 witness: a message was marked read by one request and marked again by
\* another; it is stored, read, and otherwise as it was sent.
C22_Witness ==
    /\ \A self \in Procs :
           /\ Returned(self, "markRead")
           /\ procs[self].res.n = 1
           /\ procs[self].ids = <<1>>
    /\ \E m \in messages : m.id = 1 /\ m.is_read


\* a string that is empty or made of whitespace only
Blank(s) == \A i \in 1..Len(s) : s[i] = Space

\* decrypt_message gave, for the token encrypt_message returned to p, the
\* string p had handed in
RoundTrip(p) ==
    \A q \in Procs :
        Returned(q, "decrypt") /\ procs[q].token = procs[p].res.content =>
            /\ procs[q].res.kind = "ok"
            /\ procs[q].res.content = procs[p].text

\* C23, as amended: for every string s that is not empty and not made of
\* whitespace only, and every initialisation vector, encrypt_message(s) returns
\* a token and decrypt_message of that token, under the same key, returns s.
C23_RoundTrip ==
    \A p \in Procs :
        Returned(p, "encrypt") /\ ~Blank(procs[p].text) =>
            /\ procs[p].res.kind = "ok"
            /\ RoundTrip(p)

\* C23 witness: a two-character string with a space in it was encrypted with a
\* nonzero initialisation vector, and the token was then decrypted.
C23_Witness ==
    \E p, q \in Procs :
        /\ Returned(p, "encrypt")
        /\ Len(procs[p].text) = 2
        /\ \E i \in 1..2 : procs[p].text[i] = Space
        /\ procs[p].res.kind = "ok"
        /\ procs[p].res.content[2] # 0
        /\ Returned(q, "decrypt")
        /\ procs[q].token = procs[p].res.content
        /\ procs[q].res.kind = "ok"

\* C23 as stated: for every string s of nonzero length, encrypt_message(s)
\* returns a token that decrypt_message turns back into s.
C23_AsStated ==
    \A p \in Procs :
        Returned(p, "encrypt") /\ Len(procs[p].text) > 0 =>
            /\ procs[p].res.kind = "ok"
            /\ RoundTrip(p)


\* C24 (SpecBlank): encrypt_message raises ValueError, and returns no token, for
\* the empty string and for every string made of whitespace only; a send whose
\* body is empty or whitespace only ends in an error at once and leaves the
\* messages table as it was; and no stored message decrypts to such a string.
C24_BlankRejected ==
    /\ [](\A p \in Procs :
            Returned(p, "encrypt") /\ Blank(procs[p].text) =>
                /\ procs[p].res.kind = "ValueError"
                /\ procs[p].res.content = <<>>
                /\ procs[p].token = <<>>)
    /\ [](\A m \in messages :
            FernetValid(FernetKey, m.content) =>
                ~Blank(FernetDecrypt(FernetKey, m.content)))
    /\ [][\A p \in Procs :
            /\ served' = served + 1
            /\ procs'[p] # procs[p]
            /\ procs'[p].op = "send"
            /\ Blank(procs'[p].text)
            => /\ procs'[p].pc = "done"
               /\ procs'[p].res.kind \notin {"ok", "none"}
               /\ messages' = messages]_vars

\* C24 witness: a participant's send of one space to an existing conversation
\* was turned down, and the conversation has no message.
C24_Witness ==
    \E p \in Procs :
        /\ Returned(p, "send")
        /\ procs[p].text = <<Space>>
        /\ procs[p].res.kind = "ValidationError"
        /\ \E c \in conversations :
               /\ c.id = procs[p].conv
               /\ procs[p].user \in {c.p1, c.p2}
        /\ ~\E m \in messages : m.conv = procs[p].conv


C26_MarkReadByParticipantOnly ==
    [][\A self \in Procs :
          MarkReadUpdate(self) =>
              \A m \in messages :
                  m \notin messages' =>
                      \E c \in conversations :
                          /\ c.id = m.conv
                          /\ procs[self].user \in {c.p1, c.p2}]_vars


\* C27 (requests served one after the other, SpecRead): the total that
\* get_conversation_messages returns is the number of messages stored in the
\* conversation, for every page, a page past the last message included, where
\* the list is empty and has_more is false.
C27_TotalIsMessageCount ==
    \A self \in Procs :
        Returned(self, "listMessages") /\ procs[self].res.kind = "ok" =>
            /\ procs[self].total =
                   Cardinality({m \in messages : m.conv = procs[self].conv})
            /\ procs[self].page * procs[self].size >=
                   Cardinality({m \in messages : m.conv = procs[self].conv}) =>
                       procs[self].more = FALSE


\* C28: in every reachable state every stored message belongs to a stored
\* conversation; and when a send's insert runs after its conversation was
\* deleted (the delete having committed between the send's participant check
\* and its insert), the insert is refused, the send ends in an error and the
\* messages table is as it was.
C28_NoOrphanMessage ==
    /\ [](\A m \in messages : \E c \in conversations : c.id = m.conv)
    /\ [][\A self \in Procs :
            SendInsert(self) /\ ConvsById(procs[self].conv) = {} =>
                /\ procs'[self].pc = "done"
                /\ procs'[self].res.kind = "Exception"
                /\ messages' = messages]_vars

\* C28 witness: one request deleted the conversation while a send to it stood
\* between its participant check and its insert; the send then ended in an
\* error, and neither the conversation nor any message of it is stored.
C28_Witness ==
    \E s \in Procs, d \in Procs :
        /\ Returned(d, "delete") /\ procs[d].res.n = 1
        /\ Returned(s, "send") /\ procs[s].conv = procs[d].conv
        /\ procs[s].res.kind = "Exception" /\ procs[s].res.why = "fk_violation"
        /\ ConvsById(procs[s].conv) = {}
        /\ ~\E m \in messages : m.conv = procs[s].conv

\* C29 (requests served one after the other, SpecSeq): when a send succeeds,
\* the last-activity timestamp of the message's conversation is, from that step
\* on, at least the creation timestamp of the new message.
C29_SendAdvancesLastActivity ==
    [][\A self \in Procs :
          SendInsert(self) /\ procs'[self].res.kind = "ok" =>
              \A m \in messages' \ messages :
                  \A c \in conversations' :
                      c.id = m.conv => c.last_message_at >= m.created_at]_vars


\* the id and unread count of each conversation of a response
Brief(out) ==
    [j \in 1..Len(out) |-> [id |-> out[j].id, unread_count |-> out[j].unread_count]]

\* what a get_user_conversations call for this page may return while the
\* store stays as it is
PossibleConvPages(u, page, page_size) ==
    {LET rows == PySlice(SortDesc(r1 \o r2), (page - 1) * page_size,
                         page * page_size)
     IN  [j \in 1..Len(rows) |->
             [id |-> rows[j].id, unread_count |-> UnreadIn(rows[j].id, u)]] :
        r1 \in LatestFirst(ConvsAsFirst(u)), r2 \in LatestFirst(ConvsAsSecond(u))}

\* the number of pages that hold the user's conversations
NumPages(u, page_size) ==
    (Cardinality(ViewerConvs(u)) + page_size - 1) \div page_size

\* one response for each page 1..NumPages, each a response a call may return
PageRuns(u, page_size) ==
    LET n == NumPages(u, page_size)
    IN  {f \in [1..n -> UNION {PossibleConvPages(u, q, page_size) : q \in 1..n}] :
            \A q \in 1..n : f[q] \in PossibleConvPages(u, q, page_size)}

\* every conversation of u is on exactly one page of f, once, and the unread
\* counts on the pages of f add up to what get_unread_count(u) returns
PagesCoverOnce(f, u) ==
    /\ \A c \in ViewerConvs(u) :
           SumSeq([q \in 1..Len(f) |->
                      Cardinality({j \in 1..Len(f[q]) : f[q][j].id = c.id})]) = 1
    /\ SumSeq([q \in 1..Len(f) |->
                  SumSeq([j \in 1..Len(f[q]) |-> f[q][j].unread_count])]) =
           UnreadCountResult(u)

\* no two conversations that one query of get_user_conversations(u) returns
\* have the same last-activity timestamp
NoTieInQuery(u) ==
    \A c1, c2 \in ViewerConvs(u) :
        c1 # c2 /\ (c1.p1 = u <=> c2.p1 = u) =>
            c1.last_message_at # c2.last_message_at

\* the returned page together with any responses for the other pages
RunsWith(self) ==
    {f \in PageRuns(procs[self].user, procs[self].size) :
        procs[self].page \in 1..Len(f) => f[procs[self].page] = Brief(procs[self].out)}

\* C30, as amended (requests served one after the other, SpecRead): on a store
\* where no two of the user's conversations returned by the same query have
\* equal last-activity timestamps, the responses of get_user_conversations for
\* all pages, the returned one among them, hold each conversation of the user
\* exactly once, and their unread counts add up to get_unread_count(user).
C30_PagesPartitionAndSum ==
    \A self \in Procs :
        (/\ Returned(self, "listConversations") /\ procs[self].res.kind = "ok"
         /\ NoTieInQuery(procs[self].user)) =>
            /\ Brief(procs[self].out) \in
                   PossibleConvPages(procs[self].user, procs[self].page,
                                     procs[self].size)
            /\ \A f \in RunsWith(self) : PagesCoverOnce(f, procs[self].user)

\* C30 witness: the second of three pages of size one was returned to a user
\* with three conversations and two unread messages.
C30_Witness ==
    \E self \in Procs :
        /\ Returned(self, "listConversations") /\ procs[self].res.kind = "ok"
        /\ NoTieInQuery(procs[self].user)
        /\ procs[self].page = 2 /\ procs[self].size = 1
        /\ Len(procs[self].out) = 1
        /\ NumPages(procs[self].user, 1) = 3
        /\ UnreadCountResult(procs[self].user) = 2

\* C30 as stated: in any store state the responses of get_user_conversations
\* for all pages hold each conversation of the user exactly once and their
\* unread counts add up to get_unread_count(user).
C30_AsStated ==
    \A self \in Procs :
        (Returned(self, "listConversations") /\ procs[self].res.kind = "ok") =>
            \A f \in RunsWith(self) : PagesCoverOnce(f, procs[self].user)

====
